---- MODULE Spec2Model ----
(***************************************************************************)
(* Verification model of the Nepali/English sentence-pair preprocessing    *)
(* utilities:                                                              *)
(*   - split_parquet_by_rows   ("praquet batches.py")                      *)
(*   - chunk_and_write_excel   ("metadata.py")                             *)
(*   - strip_bullets_repeated and the row filter pipeline                  *)
(*                             ("consolidated code.py")                    *)
(* Each component has its own specification over its own variables; the    *)
(* variables of the other components stay at their initial values.         *)
(***************************************************************************)
EXTENDS Integers, Sequences, FiniteSets, TLC

VARIABLES
    \* ---- split_parquet_by_rows ----
    rows_per_file,   \* parameter rows_per_file
    batches_read,    \* batches yielded by iter_batches so far, in read order
    batch,           \* loop variable `batch` (the batch being processed)
    part_idx,        \* part_idx
    acc_batches,     \* acc_batches
    acc_rows,        \* acc_rows
    files,           \* files written by write_part, in write order
    spc,             \* position in split_parquet_by_rows
    \* ---- chunk_and_write_excel ----
    ck_df,           \* parameter df: the table, a sequence of rows
    chunk_size,      \* parameter chunk_size
    num_chunks,      \* num_chunks
    ck_i,            \* loop variable i
    paths,           \* paths: the names of the units written, in order
    written,         \* the rows written to each unit, in order
    cpc,             \* position in chunk_and_write_excel
    \* ---- strip_bullets_repeated, applied twice ----
    st_in,           \* the argument s
    st_out,          \* strip_bullets_repeated(s)
    st_again,        \* strip_bullets_repeated(strip_bullets_repeated(s))
    stpc,            \* how many applications have been made
    \* ---- row filter pipeline: main() of "consolidated code.py" ----
    args,            \* the parsed command line
    p_input,         \* the table read_excel returned
    df,              \* df
    cols,            \* cols
    p_dedup_in,      \* the rows of df when the duplicate filter began
    p_exit,          \* the exception that ended the run, if any
    p_outfile,       \* the table written to outfile, if any
    ppc              \* position in main

splitVars == <<rows_per_file, batches_read, batch, part_idx, acc_batches, acc_rows, files, spc>>

chunkVars == <<ck_df, chunk_size, num_chunks, ck_i, paths, written, cpc>>

stripVars == <<st_in, st_out, st_again, stpc>>

pipeVars == <<args, p_input, df, cols, p_dedup_in, p_exit, p_outfile, ppc>>

vars == <<splitVars, chunkVars, stripVars, pipeVars>>

(***************************************************************************)
(* Generic helpers                                                         *)
(***************************************************************************)
RECURSIVE SumRows(_)
SumRows(bs) == IF bs = <<>> THEN 0 ELSE Head(bs).num_rows + SumRows(Tail(bs))

RECURSIVE Flatten(_)
Flatten(ss) == IF ss = <<>> THEN <<>> ELSE Head(ss) \o Flatten(Tail(ss))

(***************************************************************************)
(* split_parquet_by_rows                                                   *)
(***************************************************************************)
MaxBatches == 4        \* batches the reader yields at most
MaxBatchRows == 3      \* rows in one batch at most
MaxRowsPerFile == 3    \* rows_per_file at most

NoBatch == [id |-> 0, num_rows |-> 0]

\* line 39: if acc_rows > 0 and acc_rows + b_rows > rows_per_file
PreFlushOffByOne(a_rows, b_rows, rpf) == a_rows > 0 /\ a_rows + b_rows > rpf + 1
PreFlushNeeded(a_rows, b_rows, rpf) == a_rows > 0 /\ a_rows + b_rows > rpf

\* line 50: if acc_rows >= rows_per_file
PostFlushNeeded(a_rows, rpf) == a_rows >= rpf

\* line 58: if acc_rows > 0 and acc_batches
RemainderFlushInverted(a_rows, a_batches) == a_rows > 0 /\ a_batches = <<>>
RemainderFlushNeeded(a_rows, a_batches) == a_rows > 0 /\ a_batches # <<>>

SplitIdle ==
    /\ rows_per_file = 1
    /\ batches_read = <<>>
    /\ batch = NoBatch
    /\ part_idx = 1
    /\ acc_batches = <<>>
    /\ acc_rows = 0
    /\ files = <<>>
    /\ spc = "idle"

ChunkIdle ==
    /\ ck_df = <<>>
    /\ chunk_size = 1
    /\ num_chunks = 0
    /\ ck_i = 0
    /\ paths = <<>>
    /\ written = <<>>
    /\ cpc = "idle"

StripIdle ==
    /\ st_in = <<>>
    /\ st_out = <<>>
    /\ st_again = <<>>
    /\ stpc = "idle"

NoTable == [columns |-> <<>>, rows |-> <<>>]

NoError == [kind |-> "none", label |-> "", column |-> "", available |-> <<>>]

PipeIdle ==
    /\ args = [nepali_col |-> "", english_col |-> "",
               case_insensitive_dupes |-> FALSE, keep_order |-> FALSE]
    /\ p_input = NoTable
    /\ df = NoTable
    /\ cols = <<>>
    /\ p_dedup_in = <<>>
    /\ p_exit = NoError
    /\ p_outfile = NoTable
    /\ ppc = "idle"

\* write_part: nothing is written for an empty list; otherwise one file
\* holding the batches, named by the part index.
write_part(fs, bs, idx) ==
    IF bs = <<>> THEN fs ELSE Append(fs, [part |-> idx, batches |-> bs])

SplitInit ==
    /\ rows_per_file \in 1..MaxRowsPerFile
    /\ batches_read = <<>>
    /\ batch = NoBatch
    /\ part_idx = 1
    /\ acc_batches = <<>>
    /\ acc_rows = 0
    /\ files = <<>>
    /\ spc = "for"
    /\ ChunkIdle
    /\ StripIdle
    /\ PipeIdle

\* line 36: the for loop takes the next batch from iter_batches
NextBatch ==
    /\ spc = "for"
    /\ Len(batches_read) < MaxBatches
    /\ \E n \in 0..MaxBatchRows :
          LET b == [id |-> Len(batches_read) + 1, num_rows |-> n] IN
          /\ batch' = b
          /\ batches_read' = Append(batches_read, b)
    /\ spc' = "preflush"
    /\ UNCHANGED <<rows_per_file, part_idx, acc_batches, acc_rows, files>>
    /\ UNCHANGED <<chunkVars, stripVars, pipeVars>>

\* lines 37-44: flush the accumulator first if the batch would overflow
PreFlush ==
    /\ spc = "preflush"
    /\ IF PreFlushNeeded(acc_rows, batch.num_rows, rows_per_file)
       THEN /\ files' = write_part(files, acc_batches, part_idx)
            /\ part_idx' = part_idx + 1
            /\ acc_batches' = <<>>
            /\ acc_rows' = 0
       ELSE UNCHANGED <<files, part_idx, acc_batches, acc_rows>>
    /\ spc' = "append"
    /\ UNCHANGED <<rows_per_file, batches_read, batch>>
    /\ UNCHANGED <<chunkVars, stripVars, pipeVars>>

\* lines 46-47
AppendBatch ==
    /\ spc = "append"
    /\ acc_batches' = Append(acc_batches, batch)
    /\ acc_rows' = acc_rows + batch.num_rows
    /\ spc' = "postflush"
    /\ UNCHANGED <<rows_per_file, batches_read, batch, part_idx, files>>
    /\ UNCHANGED <<chunkVars, stripVars, pipeVars>>

\* lines 49-55
PostFlush ==
    /\ spc = "postflush"
    /\ IF PostFlushNeeded(acc_rows, rows_per_file)
       THEN /\ files' = write_part(files, acc_batches, part_idx)
            /\ part_idx' = part_idx + 1
            /\ acc_batches' = <<>>
            /\ acc_rows' = 0
       ELSE UNCHANGED <<files, part_idx, acc_batches, acc_rows>>
    /\ spc' = "for"
    /\ batch' = NoBatch
    /\ UNCHANGED <<rows_per_file, batches_read>>
    /\ UNCHANGED <<chunkVars, stripVars, pipeVars>>

\* lines 57-60: the reader is exhausted; flush any remainder
FlushRemainder ==
    /\ spc = "for"
    /\ IF RemainderFlushNeeded(acc_rows, acc_batches)
       THEN files' = write_part(files, acc_batches, part_idx)
       ELSE UNCHANGED files
    /\ spc' = "done"
    /\ UNCHANGED <<rows_per_file, batches_read, batch, part_idx, acc_batches, acc_rows>>
    /\ UNCHANGED <<chunkVars, stripVars, pipeVars>>

SplitNext == NextBatch \/ PreFlush \/ AppendBatch \/ PostFlush \/ FlushRemainder

SplitSpec == SplitInit /\ [][SplitNext]_vars

(***************************************************************************)
(* Properties of split_parquet_by_rows                                     *)
(***************************************************************************)
NonEmptyBatches(bs) == SelectSeq(bs, LAMBDA b : b.num_rows > 0)

FileRows(f) == SumRows(f.batches)

FileBatches == [k \in 1..Len(files) |-> files[k].batches]

\* the batches already taken from the reader and placed (appended) somewhere
PlacedBatches ==
    IF spc \in {"preflush", "append"}
    THEN SubSeq(batches_read, 1, Len(batches_read) - 1)
    ELSE batches_read

\* C1 (as stated): every written file holds between 1 and rows_per_file rows.
C1_Original ==
    \A k \in 1..Len(files) :
        FileRows(files[k]) >= 1 /\ FileRows(files[k]) <= rows_per_file

\* C1 (amended): every written file holds at least 1 row, and at most
\* rows_per_file rows unless its only non-empty batch alone exceeds
\* rows_per_file, in which case it holds exactly that one batch's rows.
C1_Amended ==
    \A k \in 1..Len(files) :
        /\ FileRows(files[k]) >= 1
        /\ \/ FileRows(files[k]) <= rows_per_file
           \/ Len(NonEmptyBatches(files[k].batches)) = 1

\* a finished run that wrote an oversized single-batch file and a file that
\* accumulated several non-empty batches up to the target
C1_Witness ==
    /\ spc = "done"
    /\ \E k \in 1..Len(files) : FileRows(files[k]) > rows_per_file
    /\ \E k \in 1..Len(files) :
          /\ Len(NonEmptyBatches(files[k].batches)) >= 2
          /\ FileRows(files[k]) = rows_per_file

\* C9: the written files (by part index) followed by the accumulator hold
\* exactly the non-empty batches read so far, whole, once and in read order;
\* part indices are 1, 2, 3, ... without gaps; the accumulator is flushed before
\* a batch that would overflow it is appended; at end of input every non-empty
\* batch is in exactly one written file.
C9_BatchPartition ==
    /\ \A k \in 1..Len(files) : files[k].part = k
    /\ spc # "done" => part_idx = Len(files) + 1
    /\ spc # "done" =>
          NonEmptyBatches(Flatten(FileBatches) \o acc_batches)
             = NonEmptyBatches(PlacedBatches)
    /\ spc = "append" =>
          acc_rows = 0 \/ acc_rows + batch.num_rows <= rows_per_file
    /\ spc = "done" =>
          NonEmptyBatches(Flatten(FileBatches)) = NonEmptyBatches(batches_read)

\* a finished run in which a flush happened before an overflowing batch, an
\* empty batch was read, and the remainder was flushed at end of input
C9_Witness ==
    /\ spc = "done"
    /\ Len(files) >= 2
    /\ \E k \in 1..Len(batches_read) : batches_read[k].num_rows = 0
    /\ FileRows(files[1]) < rows_per_file
    /\ FileRows(files[Len(files)]) < rows_per_file
    /\ Len(files[Len(files)].batches) >= 2

(***************************************************************************)
(* chunk_and_write_excel                                                   *)
(***************************************************************************)
MaxTableRows == 7      \* rows of the table at most
MaxChunkSize == 4      \* chunk_size at most

Min(a, b) == IF a <= b THEN a ELSE b

\* math.ceil(n / chunk_size) for n >= 0, chunk_size >= 1
CeilDiv(n, c) == (n + c - 1) \div c

\* line 32: start = i * chunk_size
ChunkStart(i, c) == i * c

\* line 33: stop = min((i + 1) * chunk_size, n)
ChunkStopUnclamped(i, c, n) == (i + 1) * c
ChunkStop(i, c, n) == Min((i + 1) * c, n)

\* df.iloc[start:stop]: the rows at 0-based positions start .. stop-1, with
\* the slice clamped to the table
Iloc(t, start, stop) == SubSeq(t, start + 1, Min(stop, Len(t)))

\* the decimal digits of k >= 0, most significant first
RECURSIVE Digits(_)
Digits(k) == IF k < 10 THEN <<k>> ELSE Append(Digits(k \div 10), k % 10)

\* format spec 03d: zero-padded on the left to at least 3 digits
Format03d(k) ==
    LET d == Digits(k) IN
    [j \in 1..(3 - Min(3, Len(d))) |-> 0] \o d

\* line 35: f"{base_name}_part{i+1:03d}_{start+1}-{stop}.xlsx"
OutPath(i, start, stop) ==
    [part |-> Format03d(i + 1), first |-> start + 1, last |-> stop]

ChunkInit ==
    /\ \E n \in 0..MaxTableRows : ck_df = [k \in 1..n |-> [row |-> k]]
    /\ chunk_size \in 1..MaxChunkSize
    /\ num_chunks = 0
    /\ ck_i = 0
    /\ paths = <<>>
    /\ written = <<>>
    /\ cpc = "start"
    /\ SplitIdle
    /\ StripIdle
    /\ PipeIdle

\* lines 26-30: an empty table returns [] at once
ChunkBegin ==
    /\ cpc = "start"
    /\ IF Len(ck_df) = 0
       THEN /\ cpc' = "done"
            /\ UNCHANGED num_chunks
       ELSE /\ num_chunks' = CeilDiv(Len(ck_df), chunk_size)
            /\ cpc' = "loop"
    /\ UNCHANGED <<ck_df, chunk_size, ck_i, paths, written>>
    /\ UNCHANGED <<splitVars, stripVars, pipeVars>>

\* lines 31-38: one iteration of the for loop writes one unit
ChunkWrite ==
    /\ cpc = "loop"
    /\ ck_i < num_chunks
    /\ LET start == ChunkStart(ck_i, chunk_size)
           stop  == ChunkStop(ck_i, chunk_size, Len(ck_df))
       IN /\ written' = Append(written, Iloc(ck_df, start, stop))
          /\ paths' = Append(paths, OutPath(ck_i, start, stop))
    /\ ck_i' = ck_i + 1
    /\ UNCHANGED <<ck_df, chunk_size, num_chunks, cpc>>
    /\ UNCHANGED <<splitVars, stripVars, pipeVars>>

\* line 39: return paths
ChunkReturn ==
    /\ cpc = "loop"
    /\ ck_i = num_chunks
    /\ cpc' = "done"
    /\ UNCHANGED <<ck_df, chunk_size, num_chunks, ck_i, paths, written>>
    /\ UNCHANGED <<splitVars, stripVars, pipeVars>>

ChunkNext == ChunkBegin \/ ChunkWrite \/ ChunkReturn

ChunkSpec == ChunkInit /\ [][ChunkNext]_vars

(***************************************************************************)
(* Properties of chunk_and_write_excel                                     *)
(***************************************************************************)
\* the value a digit sequence denotes
RECURSIVE DigitsValue(_)
DigitsValue(d) ==
    IF d = <<>> THEN 0 ELSE 10 * DigitsValue(SubSeq(d, 1, Len(d) - 1)) + d[Len(d)]

\* the least k with k * c >= n
LeastCover(n, c) == CHOOSE k \in 0..n : k * c >= n /\ \A j \in 0..(k - 1) : j * c < n

\* C2: exactly ceil(n / chunk_size) units are written; unit i holds the rows
\* at 1-based positions (i-1)*chunk_size+1 .. min(i*chunk_size, n) in order,
\* its name carries part index i (zero-padded to 3 digits) and that range;
\* the units are contiguous and cover every row once, only the last may be
\* smaller than chunk_size, and an empty table yields no unit and no error.
C2_ChunkWindows ==
    LET n == Len(ck_df) IN
    /\ Len(paths) = Len(written)
    /\ \A i \in 1..Len(written) :
          LET lo == (i - 1) * chunk_size + 1
              hi == Min(i * chunk_size, n)
          IN /\ written[i] = [j \in 1..(hi - lo + 1) |-> ck_df[lo + j - 1]]
             /\ hi >= lo
             /\ Len(paths[i].part) >= 3
             /\ DigitsValue(paths[i].part) = i
             /\ paths[i].first = lo
             /\ paths[i].last = hi
             /\ (i < Len(written) => Len(written[i]) = chunk_size)
    /\ cpc = "done" =>
          /\ Len(written) = LeastCover(n, chunk_size)
          /\ Flatten(written) = ck_df
          /\ (n = 0 => paths = <<>>)

\* a finished export whose last unit is smaller than the others
C2_Witness ==
    /\ cpc = "done"
    /\ Len(written) >= 3
    /\ Len(written[Len(written)]) < chunk_size

\* a finished export of an empty table
C2_WitnessEmpty == cpc = "done" /\ Len(ck_df) = 0 /\ paths = <<>>

(***************************************************************************)
(* Text: a string is a sequence of characters; a character is named by a   *)
(* TLA+ string.  Characters outside ASCII carry a symbolic name:           *)
(*   "TAB" U+0009, "NBSP" U+00A0, "ZWSP" U+200B, "ZWNJ" U+200C,            *)
(*   "D1" U+0967 (Devanagari digit one), "KA" U+0915, "KHA" U+0916.        *)
(***************************************************************************)
\* characters matched by \s and removed by str.strip()
Whitespace == {" ", "TAB", "NBSP"}

\* ZERO_WIDTH_RE, line 16
ZeroWidth == {"ZWSP", "ZWNJ"}

AsciiDigits == {"1"}
DevanagariDigits == {"D1"}
DevanagariLetters == {"KA", "KHA"}

\* \d matches every Unicode decimal digit
DecimalDigits == AsciiDigits \cup DevanagariDigits

\* ENG_LATIN_RE, line 8: [A-Za-z]
LatinLetters == {"a", "A", "i", "v"}

\* line 40: [IVXLCDMivxlcdm]
RomanLetters == {"i", "v"}

\* line 34: bullets and dashes
BulletGlyphs == {"-"}

CharAt(s, p) == IF p >= 1 /\ p <= Len(s) THEN s[p] ELSE "EOS"

\* the first position >= p whose character is not in cls (Len(s)+1 if none)
RECURSIVE SkipClass(_, _, _)
SkipClass(s, p, cls) ==
    IF p <= Len(s) /\ s[p] \in cls THEN SkipClass(s, p + 1, cls) ELSE p

Suffix(s, p) == SubSeq(s, p, Len(s))

\* str.lstrip()
LStrip(s) == Suffix(s, SkipClass(s, 1, Whitespace))

\* str.strip()
RECURSIVE RStrip(_)
RStrip(s) ==
    IF s # <<>> /\ s[Len(s)] \in Whitespace THEN RStrip(SubSeq(s, 1, Len(s) - 1)) ELSE s

Strip(s) == RStrip(LStrip(s))

(***************************************************************************)
(* LEADING_BULLET_RE, lines 30-45.  Each alternative, tried at position p, *)
(* gives the position after the token, or 0 when it does not match.        *)
(***************************************************************************)
\* [bullets/dashes]
AltGlyph(s, p) == IF CharAt(s, p) \in BulletGlyphs THEN p + 1 ELSE 0

\* \( \s* digits+ \s* \) \.?
AltParenGroup(s, p, digits) ==
    IF CharAt(s, p) # "(" THEN 0
    ELSE LET q == SkipClass(s, p + 1, Whitespace)
             r == SkipClass(s, q, digits)
             t == SkipClass(s, r, Whitespace)
         IN IF r > q /\ CharAt(s, t) = ")"
            THEN (IF CharAt(s, t + 1) = "." THEN t + 2 ELSE t + 1)
            ELSE 0

\* cls+ [.)]
AltRunThenMark(s, p, cls) ==
    LET r == SkipClass(s, p, cls)
    IN IF r > p /\ CharAt(s, r) \in {".", ")"} THEN r + 1 ELSE 0

\* [A-Za-z] [).]
AltLetter(s, p) ==
    IF CharAt(s, p) \in LatinLetters /\ CharAt(s, p + 1) \in {".", ")"} THEN p + 2 ELSE 0

\* the alternation, in its written order: the first alternative that matches
TokenEnd(s, p) ==
    LET alts == << AltGlyph(s, p),
                   AltParenGroup(s, p, DecimalDigits),
                   AltRunThenMark(s, p, DecimalDigits),
                   AltParenGroup(s, p, DevanagariDigits),
                   AltRunThenMark(s, p, DevanagariDigits),
                   AltLetter(s, p),
                   AltRunThenMark(s, p, RomanLetters) >>
        hits == {k \in 1..Len(alts) : alts[k] # 0}
    IN IF hits = {} THEN 0
       ELSE alts[CHOOSE k \in hits : \A j \in hits : k <= j]

\* LEADING_BULLET_RE.match(s): m.end(), or 0 when there is no match
BulletMatchEnd(s) ==
    LET p == SkipClass(s, 1, Whitespace)
        e == TokenEnd(s, p)
    IN IF e = 0 THEN 0 ELSE SkipClass(s, e, Whitespace)

\* strip_one_leading_bullet, lines 47-54
strip_one_leading_bullet(s) ==
    LET e == BulletMatchEnd(s)
    IN IF e # 0 THEN LStrip(Suffix(s, e)) ELSE s

\* lines 60-65: the for loop with `loops` iterations left
RECURSIVE StripLoop(_, _)
StripLoop(out, loops) ==
    IF loops = 0 THEN out
    ELSE LET new == strip_one_leading_bullet(out)
         IN IF new = out THEN out ELSE StripLoop(new, loops - 1)

\* the default of the parameter max_loops, line 56
max_loops == 3

\* strip_bullets_repeated, lines 56-65
strip_bullets_one_loop_short(s) == StripLoop(s, max_loops - 1)
strip_bullets_repeated(s) == StripLoop(s, max_loops)

(***************************************************************************)
(* strip_bullets_repeated applied to a string and then to its own result   *)
(***************************************************************************)
MaxStripLen == 4       \* length of the argument at most

StripAlphabet == {" ", "-", "(", ")", ".", "1", "D1", "a", "i", "KA"}

Strings(alphabet, maxLen) == UNION {[1..n -> alphabet] : n \in 0..maxLen}

StripInit ==
    /\ st_in \in Strings(StripAlphabet, MaxStripLen)
    /\ st_out = <<>>
    /\ st_again = <<>>
    /\ stpc = "start"
    /\ SplitIdle
    /\ ChunkIdle
    /\ PipeIdle

StripFirst ==
    /\ stpc = "start"
    /\ st_out' = strip_bullets_repeated(st_in)
    /\ stpc' = "once"
    /\ UNCHANGED <<st_in, st_again>>
    /\ UNCHANGED <<splitVars, chunkVars, pipeVars>>

StripSecond ==
    /\ stpc = "once"
    /\ st_again' = strip_bullets_repeated(st_out)
    /\ stpc' = "twice"
    /\ UNCHANGED <<st_in, st_out>>
    /\ UNCHANGED <<splitVars, chunkVars, pipeVars>>

StripNext == StripFirst \/ StripSecond

StripSpec == StripInit /\ [][StripNext]_vars

(***************************************************************************)
(* Properties of strip_bullets_repeated                                    *)
(***************************************************************************)
\* how many leading markers can be removed from s one after another
RECURSIVE MarkerCount(_)
MarkerCount(s) ==
    IF BulletMatchEnd(s) = 0 THEN 0
    ELSE 1 + MarkerCount(LStrip(Suffix(s, BulletMatchEnd(s))))

\* C5 (as stated): for every string s,
\* strip_bullets_repeated(strip_bullets_repeated(s)) = strip_bullets_repeated(s).
C5_Original == stpc = "twice" => st_again = st_out

\* C5 (amended): for every string s from which at most max_loops (3) leading
\* markers can be removed one after another,
\* strip_bullets_repeated(strip_bullets_repeated(s)) = strip_bullets_repeated(s).
C5_Amended ==
    (stpc = "twice" /\ MarkerCount(st_in) <= max_loops) => st_again = st_out

\* a string with exactly three leading markers before its text, stripped twice
C5_Witness ==
    /\ stpc = "twice"
    /\ MarkerCount(st_in) = max_loops
    /\ st_out # <<>>
    /\ st_again = st_out

(***************************************************************************)
(* Cells and text functions of the row filter pipeline                     *)
(***************************************************************************)
\* A cell value: a str (its characters in v) or a value of another type.
Str(v) == [type |-> "str", v |-> v]
NaN == [type |-> "nan", v |-> <<>>]
Num(k) == [type |-> "int", v |-> <<k>>]
Bool(b) == [type |-> "bool", v |-> <<b>>]

\* isinstance(s, str)
IsStr(c) == c.type = "str"

\* ZERO_WIDTH_RE.sub("", s), line 82
RemoveZeroWidth(s) == SelectSeq(s, LAMBDA ch : ch \notin ZeroWidth)

\* s.replace(NBSP, " "), line 83
ReplaceNbsp(s) == [k \in 1..Len(s) |-> IF s[k] = "NBSP" THEN " " ELSE s[k]]

\* WHITESPACE_RE.sub(" ", s), line 84: every maximal run of whitespace
\* becomes one space
RECURSIVE CollapseWhitespace(_)
CollapseWhitespace(s) ==
    IF s = <<>> THEN <<>>
    ELSE IF s[1] \in Whitespace
         THEN <<" ">> \o CollapseWhitespace(Suffix(s, SkipClass(s, 1, Whitespace)))
         ELSE <<s[1]>> \o CollapseWhitespace(Tail(s))

\* lines 82-85 on a str
NormalizeCollapseFirst(s) == RemoveZeroWidth(Strip(CollapseWhitespace(ReplaceNbsp(s))))
NormalizeStr(s) == Strip(CollapseWhitespace(ReplaceNbsp(RemoveZeroWidth(s))))

\* normalize_text, lines 79-85
normalize_text(c) == IF ~IsStr(c) THEN Str(<<>>) ELSE Str(NormalizeStr(c.v))

\* chr(DEV_ZERO + (ord(ch) - ord("0"))), line 74
DevanagariDigitOf(ch) == IF ch = "1" THEN "D1" ELSE ch

\* to_devanagari_digits_only, lines 67-77, on a str
to_devanagari_digits_only(s) ==
    [k \in 1..Len(s) |-> IF s[k] \in AsciiDigits THEN DevanagariDigitOf(s[k]) ELSE s[k]]

\* unicodedata.category(ch)[0]
Category(ch) ==
    CASE ch \in LatinLetters \cup DevanagariLetters -> "L"
      [] ch \in {"-", "(", ")", ".", ","} -> "P"
      [] ch \in {"|"} -> "S"
      [] ch \in DecimalDigits -> "N"
      [] ch \in {" ", "NBSP"} -> "Z"
      [] OTHER -> "C"

CountIn(s, cats) == Len(SelectSeq(s, LAMBDA ch : Category(ch) \in cats))

\* --min_alpha_ratio and --max_symbol_ratio defaults, in tenths
MinAlphaTenths == 3
MaxSymbolTenths == 5

\* looks_nonsense, lines 87-97, with the two ratios given in tenths
looks_nonsense(s, min_alpha_tenths, max_symbol_tenths) ==
    IF s = <<>> THEN TRUE
    ELSE LET total == Len(s)
             letters == CountIn(s, {"L"})
             symbols == CountIn(s, {"S", "P"})
         IN \/ symbols * 10 > max_symbol_tenths * total
            \/ letters * 10 < min_alpha_tenths * total

\* ENG_LATIN_RE, line 8, searched anywhere in s (str.contains)
ContainsLatin(s) == \E k \in 1..Len(s) : s[k] \in LatinLetters

\* the character class of ALLOWED_CHARS_RE, line 13
AllowedCharsWithBar ==
    DevanagariLetters \cup DevanagariDigits \cup Whitespace
        \cup {".", ",", "-", "(", ")", "ZWNJ", "|"}
AllowedCharsWithLatin ==
    DevanagariLetters \cup DevanagariDigits \cup Whitespace
        \cup {".", ",", "-", "(", ")", "ZWNJ"} \cup LatinLetters
AllowedChars ==
    DevanagariLetters \cup DevanagariDigits \cup Whitespace
        \cup {".", ",", "-", "(", ")", "ZWNJ"}

\* str.fullmatch(ALLOWED_CHARS_RE): one or more allowed characters, up to the end
FullMatchAllowed(s) == s # <<>> /\ \A k \in 1..Len(s) : s[k] \in AllowedChars

\* str.lower()
LowerChar(ch) == IF ch = "A" THEN "a" ELSE ch
Lower(s) == [k \in 1..Len(s) |-> LowerChar(s[k])]

\* sep=' ||| ', line 163
DedupSep == <<" ", "|", "|", "|", " ">>

(***************************************************************************)
(* Tables: columns is list(df.columns); a row keeps its index label idx and *)
(* maps every column to a cell.                                            *)
(***************************************************************************)
Range(q) == {q[k] : k \in 1..Len(q)}

HasColumn(t, c) == c \in Range(t.columns)

\* df[col]: the cells of a column, row by row
Column(t, col) == [k \in 1..Len(t.rows) |-> t.rows[k].cells[col]]

\* df[col] = series, for a column df has
SetColumn(t, col, series) ==
    [t EXCEPT !.rows = [k \in 1..Len(t.rows) |->
        [t.rows[k] EXCEPT !.cells = [c \in DOMAIN @ |->
            IF c = col THEN series[k] ELSE @[c]]]]]

\* df[name] = series: a new column goes last, an existing one is overwritten
AddColumn(t, name, series) ==
    [columns |-> IF HasColumn(t, name) THEN t.columns ELSE Append(t.columns, name),
     rows |-> [k \in 1..Len(t.rows) |->
        [t.rows[k] EXCEPT !.cells = [c \in DOMAIN @ \cup {name} |->
            IF c = name THEN series[k] ELSE @[c]]]]]

\* df.drop(columns=names)
DropColumns(t, names) ==
    [columns |-> SelectSeq(t.columns, LAMBDA c : c \notin names),
     rows |-> [k \in 1..Len(t.rows) |->
        [t.rows[k] EXCEPT !.cells = [c \in DOMAIN @ \ names |-> @[c]]]]]

\* the rows at the positions in kept, in table order
RowsAt(rows, kept) ==
    LET ps == SelectSeq([k \in 1..Len(rows) |-> k], LAMBDA k : k \in kept)
    IN [j \in 1..Len(ps) |-> rows[ps[j]]]

\* df[mask], for a boolean series mask
FilterRows(t, mask) ==
    [t EXCEPT !.rows = RowsAt(t.rows, {k \in 1..Len(t.rows) : mask[k]})]

\* df[cols]
SelectColumns(t, names) ==
    [columns |-> names,
     rows |-> [k \in 1..Len(t.rows) |->
        [t.rows[k] EXCEPT !.cells = [c \in Range(names) |-> @[c]]]]]

(***************************************************************************)
(* main() of "consolidated code.py": the row filter pipeline               *)
(***************************************************************************)
MaxRows == 3           \* rows of the input table at most

NepaliCol(a) == a.nepali_col
EnglishCol(a) == a.english_col

\* line 135: target_col = args.nepali_col if args.source_first else args.nepali_col
TargetCol(a) == IF a.source_first THEN a.nepali_col ELSE a.nepali_col

\* lines 117-120: which required column is reported missing, if any
MissingNepaliOnly(a, columns) ==
    IF a.nepali_col \notin Range(columns) THEN "Nepali" ELSE "none"
MissingColumn(a, columns) ==
    IF a.nepali_col \notin Range(columns) THEN "Nepali"
    ELSE IF a.english_col \notin Range(columns) THEN "English"
    ELSE "none"

\* raise SystemExit(f"... column '{name}' not found. Available: {list(df.columns)}")
SystemExit(label, name, columns) ==
    [kind |-> "SystemExit", label |-> label, column |-> name, available |-> columns]

\* the KeyError pandas raises for a column label that is not in df
KeyError(name, columns) ==
    [kind |-> "KeyError", label |-> "", column |-> name, available |-> columns]

\* line 143: both sides non-blank
NonBlankMask(nep, eng) == Strip(nep) # <<>> /\ Strip(eng) # <<>>

\* line 153: the rows dropped as nonsense
NonsenseBoth(flag_nep, flag_eng) == flag_nep /\ flag_eng
NonsenseEither(flag_nep, flag_eng) == flag_nep \/ flag_eng

\* lines 161-163: key_nep.str.cat(key_eng, sep=' ||| ')
DedupKey(nep, eng, case_insensitive) ==
    IF case_insensitive
    THEN Lower(nep) \o DedupSep \o Lower(eng)
    ELSE nep \o DedupSep \o eng

\* line 164: keep='first' if args.keep_order else False
KeepArg(keep_order) == IF keep_order THEN "first" ELSE "none"

\* Series.duplicated(keep): is the k-th key marked as a duplicate
DuplicatedKeepLast(keys, k, keep) ==
    IF keep = "first"
    THEN \E j \in (k + 1)..Len(keys) : keys[j] = keys[k]
    ELSE \E j \in 1..Len(keys) : j # k /\ keys[j] = keys[k]
Duplicated(keys, k, keep) ==
    IF keep = "first"
    THEN \E j \in 1..(k - 1) : keys[j] = keys[k]
    ELSE \E j \in 1..Len(keys) : j # k /\ keys[j] = keys[k]

\* df.to_excel(writer, index=False): the columns and the cells, without the index
ToExcelWithIndex(t) ==
    [columns |-> <<"index">> \o t.columns,
     rows |-> [k \in 1..Len(t.rows) |-> t.rows[k].cells]]
ToExcel(t) ==
    [columns |-> t.columns,
     rows |-> [k \in 1..Len(t.rows) |-> t.rows[k].cells]]

(***************************************************************************)
(* Input tables                                                            *)
(***************************************************************************)
KaKha == <<"KA", "KHA">>

\* pairs of (Nepali cell, English cell) an input row is drawn from
RowPool ==
    { \* numbered pair; cleans to (KA KHA, Aa)
      [nep |-> Str(<<"1", ".", " ">> \o KaKha), eng |-> Str(<<"(", "1", ")", " ", "A", "a">>)],
      \* already clean; equal to the first up to case
      [nep |-> Str(KaKha), eng |-> Str(<<"a", "a">>)],
      \* zero-width, no-break and repeated whitespace
      [nep |-> Str(<<"TAB", "KA", "ZWSP", "KHA", "NBSP", " ">>),
       eng |-> Str(<<"A", " ", "ZWNJ", " ", "a">>)],
      \* digits on both sides
      [nep |-> Str(KaKha \o <<" ", "1">>), eng |-> Str(<<"a", "1">>)],
      \* Latin letter in the Nepali cell
      [nep |-> Str(<<"KA", "a", "KHA">>), eng |-> Str(<<"a", "a">>)],
      \* nonsense English cell
      [nep |-> Str(KaKha), eng |-> Str(<<".", ".", "a">>)],
      \* a bar in the Nepali cell
      [nep |-> Str(KaKha \o DedupSep \o <<"KA">>), eng |-> Str(<<"a", "a">>)],
      \* the separator inside the English cell
      [nep |-> Str(KaKha), eng |-> Str(<<"KA">> \o DedupSep \o <<"a", "a">>)],
      \* an empty Excel cell, and a cell that is only a bullet
      [nep |-> Str(<<"-", " ">>), eng |-> NaN] }

\* the column layouts of the input workbook
Layouts ==
    { <<"id", "nepali_col", "english_col">>,
      <<"__nonsense_nep", "english_col", "nepali_col">>,
      <<"id", "english_col">>,
      <<"nepali_col", "id">>,
      <<"id">> }

CellOf(c, pair, k) ==
    IF c = "nepali_col" THEN pair.nep
    ELSE IF c = "english_col" THEN pair.eng
    ELSE Num(k)

\* the table pd.read_excel returns: rows indexed 1, 2, ...
MakeTable(layout, pairs) ==
    [columns |-> layout,
     rows |-> [k \in 1..Len(pairs) |->
        [idx |-> k, cells |-> [c \in Range(layout) |-> CellOf(c, pairs[k], k)]]]]

\* source_first is left at its default: line 135 gives the same target_col
\* either way
PipeInit ==
    /\ \E co \in BOOLEAN, ko \in BOOLEAN :
          args = [nepali_col |-> "nepali_col", english_col |-> "english_col",
                  case_insensitive_dupes |-> co, keep_order |-> ko,
                  source_first |-> FALSE,
                  min_alpha_ratio |-> MinAlphaTenths,
                  max_symbol_ratio |-> MaxSymbolTenths]
    /\ \E layout \in Layouts, pairs \in Strings(RowPool, MaxRows) :
          /\ p_input = MakeTable(layout, pairs)
          /\ df = MakeTable(layout, pairs)
    /\ cols = <<>>
    /\ p_dedup_in = <<>>
    /\ p_exit = NoError
    /\ p_outfile = NoTable
    /\ ppc = "start"
    /\ SplitIdle
    /\ ChunkIdle
    /\ StripIdle

Nep(r) == r.cells[NepaliCol(args)].v
Eng(r) == r.cells[EnglishCol(args)].v

\* Series.map(normalize_text)
MapNormalize(series) == [k \in DOMAIN series |-> normalize_text(series[k])]

\* Series.map(strip_bullets_repeated): a value that is not a str is returned as
\* it is (lines 57-58)
MapStripBullets(series) ==
    [k \in DOMAIN series |->
        IF IsStr(series[k]) THEN Str(strip_bullets_repeated(series[k].v)) ELSE series[k]]

\* Series.map(to_devanagari_digits_only); the cells are str here, the results
\* of normalize_text
MapDigits(series) ==
    [k \in DOMAIN series |-> Str(to_devanagari_digits_only(series[k].v))]

\* Series.map(lambda s: looks_nonsense(s, args.min_alpha_ratio, args.max_symbol_ratio))
MapNonsense(series, a) ==
    [k \in DOMAIN series |->
        Bool(looks_nonsense(series[k].v, a.min_alpha_ratio, a.max_symbol_ratio))]

\* lines 113-123: the required columns are checked, then cols is taken
CheckColumns ==
    /\ ppc = "start"
    /\ LET missing == MissingColumn(args, df.columns) IN
       IF missing = "Nepali"
       THEN /\ p_exit' = SystemExit("Nepali", args.nepali_col, df.columns)
            /\ ppc' = "exit"
            /\ UNCHANGED cols
       ELSE IF missing = "English"
       THEN /\ p_exit' = SystemExit("English", args.english_col, df.columns)
            /\ ppc' = "exit"
            /\ UNCHANGED cols
       ELSE /\ cols' = df.columns
            /\ ppc' = "normalize"
            /\ UNCHANGED p_exit
    /\ UNCHANGED <<args, p_input, df, p_dedup_in, p_outfile>>
    /\ UNCHANGED <<splitVars, chunkVars, stripVars>>

\* lines 125-127; df[col] raises KeyError for a label that is not in df
Normalize ==
    /\ ppc = "normalize"
    /\ IF ~HasColumn(df, args.nepali_col)
       THEN /\ p_exit' = KeyError(args.nepali_col, df.columns)
            /\ ppc' = "crash"
            /\ UNCHANGED df
       ELSE LET df1 == SetColumn(df, args.nepali_col,
                                 MapNormalize(Column(df, args.nepali_col)))
            IN IF ~HasColumn(df, args.english_col)
               THEN /\ p_exit' = KeyError(args.english_col, df.columns)
                    /\ ppc' = "crash"
                    /\ df' = df1
               ELSE /\ df' = SetColumn(df1, args.english_col,
                                       MapNormalize(Column(df1, args.english_col)))
                    /\ ppc' = "strip"
                    /\ UNCHANGED p_exit
    /\ UNCHANGED <<args, p_input, cols, p_dedup_in, p_outfile>>
    /\ UNCHANGED <<splitVars, chunkVars, stripVars>>

\* lines 129-131
StripBullets ==
    /\ ppc = "strip"
    /\ LET df1 == SetColumn(df, args.nepali_col,
                            MapStripBullets(Column(df, args.nepali_col)))
       IN df' = SetColumn(df1, args.english_col,
                          MapStripBullets(Column(df1, args.english_col)))
    /\ ppc' = "digits"
    /\ UNCHANGED <<args, p_input, cols, p_dedup_in, p_exit, p_outfile>>
    /\ UNCHANGED <<splitVars, chunkVars, stripVars>>

\* lines 133-140
ConvertDigits ==
    /\ ppc = "digits"
    /\ df' = SetColumn(df, TargetCol(args), MapDigits(Column(df, TargetCol(args))))
    /\ ppc' = "blank"
    /\ UNCHANGED <<args, p_input, cols, p_dedup_in, p_exit, p_outfile>>
    /\ UNCHANGED <<splitVars, chunkVars, stripVars>>

\* lines 142-144
DropBlank ==
    /\ ppc = "blank"
    /\ df' = FilterRows(df, [k \in 1..Len(df.rows) |->
                                NonBlankMask(Nep(df.rows[k]), Eng(df.rows[k]))])
    /\ ppc' = "latin"
    /\ UNCHANGED <<args, p_input, cols, p_dedup_in, p_exit, p_outfile>>
    /\ UNCHANGED <<splitVars, chunkVars, stripVars>>

\* lines 146-148
DropLatin ==
    /\ ppc = "latin"
    /\ df' = FilterRows(df, [k \in 1..Len(df.rows) |-> ~ContainsLatin(Nep(df.rows[k]))])
    /\ ppc' = "flag"
    /\ UNCHANGED <<args, p_input, cols, p_dedup_in, p_exit, p_outfile>>
    /\ UNCHANGED <<splitVars, chunkVars, stripVars>>

\* lines 150-152: the two working columns are added
FlagNonsense ==
    /\ ppc = "flag"
    /\ LET df1 == AddColumn(df, "__nonsense_nep",
                            MapNonsense(Column(df, args.nepali_col), args))
       IN df' = AddColumn(df1, "__nonsense_eng",
                          MapNonsense(Column(df1, args.english_col), args))
    /\ ppc' = "nonsense"
    /\ UNCHANGED <<args, p_input, cols, p_dedup_in, p_exit, p_outfile>>
    /\ UNCHANGED <<splitVars, chunkVars, stripVars>>

\* lines 153-154: flagged rows are dropped, then the working columns
DropNonsense ==
    /\ ppc = "nonsense"
    /\ df' = DropColumns(
                FilterRows(df, [k \in 1..Len(df.rows) |->
                    ~NonsenseEither(Column(df, "__nonsense_nep")[k].v[1],
                                    Column(df, "__nonsense_eng")[k].v[1])]),
                {"__nonsense_nep", "__nonsense_eng"})
    /\ ppc' = "allowed"
    /\ UNCHANGED <<args, p_input, cols, p_dedup_in, p_exit, p_outfile>>
    /\ UNCHANGED <<splitVars, chunkVars, stripVars>>

\* lines 156-158
DropDisallowed ==
    /\ ppc = "allowed"
    /\ df' = FilterRows(df, [k \in 1..Len(df.rows) |-> FullMatchAllowed(Nep(df.rows[k]))])
    /\ ppc' = "dedup"
    /\ UNCHANGED <<args, p_input, cols, p_dedup_in, p_exit, p_outfile>>
    /\ UNCHANGED <<splitVars, chunkVars, stripVars>>

\* the dedup key of every row of a sequence of rows
DedupKeys(rows) ==
    [k \in 1..Len(rows) |->
        DedupKey(Nep(rows[k]), Eng(rows[k]), args.case_insensitive_dupes)]

\* lines 160-164
DropDuplicates ==
    /\ ppc = "dedup"
    /\ p_dedup_in' = df.rows
    /\ LET keys == DedupKeys(df.rows)
       IN df' = FilterRows(df, [k \in 1..Len(keys) |->
                                   ~Duplicated(keys, k, KeepArg(args.keep_order))])
    /\ ppc' = "write"
    /\ UNCHANGED <<args, p_input, cols, p_exit, p_outfile>>
    /\ UNCHANGED <<splitVars, chunkVars, stripVars>>

\* lines 166-169: df[cols] raises KeyError for a label that is no longer in df
WriteOut ==
    /\ ppc = "write"
    /\ LET absent == SelectSeq(cols, LAMBDA c : ~HasColumn(df, c)) IN
       IF absent # <<>>
       THEN /\ p_exit' = KeyError(absent[1], df.columns)
            /\ ppc' = "crash"
            /\ UNCHANGED <<df, p_outfile>>
       ELSE /\ df' = SelectColumns(df, cols)
            /\ p_outfile' = ToExcel(SelectColumns(df, cols))
            /\ ppc' = "done"
            /\ UNCHANGED p_exit
    /\ UNCHANGED <<args, p_input, cols, p_dedup_in>>
    /\ UNCHANGED <<splitVars, chunkVars, stripVars>>

PipeNext ==
    \/ CheckColumns \/ Normalize \/ StripBullets \/ ConvertDigits
    \/ DropBlank \/ DropLatin \/ FlagNonsense \/ DropNonsense
    \/ DropDisallowed \/ DropDuplicates \/ WriteOut

PipeSpec == PipeInit /\ [][PipeNext]_vars

(***************************************************************************)
(* Properties of the row filter pipeline                                   *)
(***************************************************************************)
IdxSeq(rows) == [k \in 1..Len(rows) |-> rows[k].idx]

\* a is b with some elements left out
RECURSIVE IsSubsequence(_, _)
IsSubsequence(a, b) ==
    IF a = <<>> THEN TRUE
    ELSE IF b = <<>> THEN FALSE
    ELSE IF Head(a) = Head(b) THEN IsSubsequence(Tail(a), Tail(b))
    ELSE IsSubsequence(a, Tail(b))

\* s contains t as a contiguous run
Contains(s, t) ==
    \E k \in 1..(Len(s) - Len(t) + 1) : SubSeq(s, k, k + Len(t) - 1) = t

\* the row of the input table a row of df comes from
InputRow(r) == p_input.rows[r.idx]

BothColumnsPresent ==
    /\ args.nepali_col \in Range(p_input.columns)
    /\ args.english_col \in Range(p_input.columns)

\* C3: among the rows that reach the duplicate filter, with keep_order exactly
\* the first row of every key survives; without it exactly the rows whose key
\* occurs once survive; the survivors stay in table order.
C3_Dedup ==
    ppc = "write" =>
        LET keys == DedupKeys(p_dedup_in)
            survives(k) == \E m \in 1..Len(df.rows) : df.rows[m] = p_dedup_in[k]
            sameKey(k) == {j \in 1..Len(keys) : keys[j] = keys[k]}
        IN /\ IsSubsequence(df.rows, p_dedup_in)
           /\ \A k \in 1..Len(keys) :
                IF args.keep_order
                THEN /\ survives(k) <=> (\A j \in sameKey(k) : k <= j)
                     /\ Cardinality({j \in sameKey(k) : survives(j)}) = 1
                ELSE survives(k) <=> Cardinality(sameKey(k)) = 1

\* keep_order set: three rows reached the filter, two share a key, the first
\* of them and the row with its own key survive
C3_Witness ==
    /\ ppc = "write"
    /\ args.keep_order
    /\ Len(p_dedup_in) = 3
    /\ DedupKeys(p_dedup_in)[1] = DedupKeys(p_dedup_in)[3]
    /\ DedupKeys(p_dedup_in)[1] # DedupKeys(p_dedup_in)[2]
    /\ df.rows = <<p_dedup_in[1], p_dedup_in[2]>>

\* keep_order unset: the whole group of a repeated key is gone
C3_WitnessDropAll ==
    /\ ppc = "write"
    /\ ~args.keep_order
    /\ Len(p_dedup_in) = 3
    /\ DedupKeys(p_dedup_in)[1] = DedupKeys(p_dedup_in)[3]
    /\ DedupKeys(p_dedup_in)[1] # DedupKeys(p_dedup_in)[2]
    /\ df.rows = <<p_dedup_in[2]>>

\* the cleaned designated values of an input row
CleanNepali(r) ==
    to_devanagari_digits_only(
        strip_bullets_repeated(normalize_text(r.cells[args.nepali_col]).v))
CleanEnglish(r) ==
    strip_bullets_repeated(normalize_text(r.cells[args.english_col]).v)

IsBlank(s) == \A k \in 1..Len(s) : s[k] \in Whitespace

PassesFilters(r) ==
    /\ ~IsBlank(CleanNepali(r)) /\ ~IsBlank(CleanEnglish(r))
    /\ ~ContainsLatin(CleanNepali(r))
    /\ ~looks_nonsense(CleanNepali(r), args.min_alpha_ratio, args.max_symbol_ratio)
    /\ ~looks_nonsense(CleanEnglish(r), args.min_alpha_ratio, args.max_symbol_ratio)
    /\ FullMatchAllowed(CleanNepali(r))

\* the rows that enter the duplicate filter are the input rows that pass
\* every filter on their cleaned values, in input order, with those values
C4_EnterDedup ==
    ppc = "dedup" =>
        LET expected == SelectSeq(p_input.rows, PassesFilters)
        IN /\ IdxSeq(df.rows) = IdxSeq(expected)
           /\ \A k \in 1..Len(df.rows) :
                /\ Nep(df.rows[k]) = CleanNepali(InputRow(df.rows[k]))
                /\ Eng(df.rows[k]) = CleanEnglish(InputRow(df.rows[k]))

\* every step leaves the rows of df a subsequence of what they were
C4_RowsOnlyRemoved == IsSubsequence(IdxSeq(df'.rows), IdxSeq(df.rows))

\* C4: the pipeline never adds or reorders rows (after each pass the table is
\* a subsequence of the table before it), and the rows entering deduplication
\* are exactly the input rows whose cleaned values are both non-blank, have no
\* Latin letter in the Nepali column, are both not nonsense and fully match
\* the allow-list in the Nepali column, in original order.
C4_FilterPasses == [](C4_EnterDedup) /\ [][C4_RowsOnlyRemoved]_vars

\* three input rows, of which one was dropped as nonsense, one for a
\* disallowed character, and one reached the duplicate filter
C4_Witness ==
    /\ ppc = "dedup"
    /\ Len(p_input.rows) = 3
    /\ Len(df.rows) = 1
    /\ \E k \in 1..3 :
          /\ ~ContainsLatin(CleanNepali(p_input.rows[k]))
          /\ looks_nonsense(CleanEnglish(p_input.rows[k]),
                            args.min_alpha_ratio, args.max_symbol_ratio)
    /\ \E k \in 1..3 :
          /\ ~looks_nonsense(CleanNepali(p_input.rows[k]),
                             args.min_alpha_ratio, args.max_symbol_ratio)
          /\ ~looks_nonsense(CleanEnglish(p_input.rows[k]),
                             args.min_alpha_ratio, args.max_symbol_ratio)
          /\ ~ContainsLatin(CleanNepali(p_input.rows[k]))
          /\ ~FullMatchAllowed(CleanNepali(p_input.rows[k]))

\* C6: the written table has exactly the input's columns in the input's
\* order, no working column, and every cell outside the two designated
\* columns of every written row equals the input's.
C6_ColumnsAndFrame ==
    ppc = "done" =>
        /\ p_outfile.columns = p_input.columns
        /\ Len(p_outfile.rows) = Len(df.rows)
        /\ \A k \in 1..Len(p_outfile.rows) :
              /\ DOMAIN p_outfile.rows[k] = Range(p_input.columns)
              /\ \A c \in Range(p_input.columns) \ {args.nepali_col, args.english_col} :
                    p_outfile.rows[k][c] = InputRow(df.rows[k]).cells[c]

\* a table with another column before the text columns was written with two
\* rows, one of them with a changed Nepali cell, after a row was dropped
C6_Witness ==
    /\ ppc = "done"
    /\ p_input.columns[1] = "id"
    /\ Len(p_input.rows) = 3
    /\ Len(p_outfile.rows) = 2
    /\ \E k \in 1..2 :
          p_outfile.rows[k][args.nepali_col] # InputRow(df.rows[k]).cells[args.nepali_col]

\* no zero-width character, no no-break space, no whitespace at either end,
\* no two whitespace characters in a row
IsNormalized(s) ==
    /\ \A k \in 1..Len(s) : s[k] \notin ZeroWidth /\ s[k] # "NBSP"
    /\ s # <<>> => (s[1] \notin Whitespace /\ s[Len(s)] \notin Whitespace)
    /\ \A k \in 1..(Len(s) - 1) : ~(s[k] \in Whitespace /\ s[k + 1] \in Whitespace)

\* C7: from the end of normalize_text on (through bullet stripping, digit
\* conversion, the first filter pass and every later state) every value in
\* both designated columns is normalized text.
C7_NormalizedText ==
    ppc \in {"strip", "digits", "blank", "latin", "flag", "nonsense",
             "allowed", "dedup", "write", "done"} =>
        \A k \in 1..Len(df.rows) :
            /\ IsStr(df.rows[k].cells[args.nepali_col])
            /\ IsStr(df.rows[k].cells[args.english_col])
            /\ IsNormalized(Nep(df.rows[k]))
            /\ IsNormalized(Eng(df.rows[k]))

\* the blank filter is about to run on a row whose input cells held a
\* zero-width character and a no-break space
C7_Witness ==
    /\ ppc = "blank"
    /\ \E k \in 1..Len(df.rows) :
          /\ "ZWSP" \in Range(InputRow(df.rows[k]).cells[args.nepali_col].v)
          /\ "NBSP" \in Range(InputRow(df.rows[k]).cells[args.nepali_col].v)
          /\ "ZWNJ" \in Range(InputRow(df.rows[k]).cells[args.english_col].v)
          /\ Nep(df.rows[k]) # <<>>

\* C8: when a designated column is absent, the run ends in SystemExit naming
\* a missing column and listing the available ones; df is untouched and
\* nothing is written.
C8_MissingColumn ==
    (~BothColumnsPresent /\ ppc # "start") =>
        /\ ppc = "exit"
        /\ p_exit.kind = "SystemExit"
        /\ p_exit.column \in {args.nepali_col, args.english_col} \ Range(p_input.columns)
        /\ p_exit.label = (IF p_exit.column = args.nepali_col THEN "Nepali" ELSE "English")
        /\ p_exit.available = p_input.columns
        /\ df = p_input
        /\ p_outfile = NoTable

\* the run ended because only the English column is absent
C8_Witness ==
    /\ ppc = "exit"
    /\ p_exit.label = "English"
    /\ args.nepali_col \in Range(p_input.columns)
    /\ Len(p_input.rows) > 0

Fold(s) == IF args.case_insensitive_dupes THEN Lower(s) ELSE s

\* C10: two rows that reach the duplicate filter have equal keys exactly when
\* their Nepali values are equal and their English values are equal (under
\* the configured case folding).
C10_KeyInjective ==
    ppc = "dedup" =>
        \A i, j \in 1..Len(df.rows) :
            (DedupKeys(df.rows)[i] = DedupKeys(df.rows)[j])
                <=> /\ Fold(Nep(df.rows[i])) = Fold(Nep(df.rows[j]))
                    /\ Fold(Eng(df.rows[i])) = Fold(Eng(df.rows[j]))

\* two rows with the same Nepali value reach the filter, one of them with the
\* separator inside its English cell, next to a pair of rows with equal keys
C10_Witness ==
    /\ ppc = "dedup"
    /\ \E i, j \in 1..Len(df.rows) :
          /\ Nep(df.rows[i]) = Nep(df.rows[j])
          /\ Contains(Eng(df.rows[i]), DedupSep)
          /\ DedupKeys(df.rows)[i] # DedupKeys(df.rows)[j]
    /\ \E i, j \in 1..Len(df.rows) :
          i # j /\ DedupKeys(df.rows)[i] = DedupKeys(df.rows)[j]

(***************************************************************************)
(* The pipeline with the Latin-letter pass (lines 146-148) taken out       *)
(***************************************************************************)
\* lines 125-140 on a table: normalize both columns, strip bullets on both,
\* convert the digits of the target column
CleanedTable(t) ==
    LET t1 == SetColumn(t, args.nepali_col, MapNormalize(Column(t, args.nepali_col)))
        t2 == SetColumn(t1, args.english_col, MapNormalize(Column(t1, args.english_col)))
        t3 == SetColumn(t2, args.nepali_col, MapStripBullets(Column(t2, args.nepali_col)))
        t4 == SetColumn(t3, args.english_col, MapStripBullets(Column(t3, args.english_col)))
    IN SetColumn(t4, TargetCol(args), MapDigits(Column(t4, TargetCol(args))))

\* lines 142-144 on a table
BlankPass(t) ==
    FilterRows(t, [k \in 1..Len(t.rows) |-> NonBlankMask(Nep(t.rows[k]), Eng(t.rows[k]))])

\* lines 150-154 on a table
NonsensePass(t) ==
    LET t1 == AddColumn(t, "__nonsense_nep", MapNonsense(Column(t, args.nepali_col), args))
        t2 == AddColumn(t1, "__nonsense_eng", MapNonsense(Column(t1, args.english_col), args))
    IN DropColumns(
          FilterRows(t2, [k \in 1..Len(t2.rows) |->
              ~NonsenseEither(Column(t2, "__nonsense_nep")[k].v[1],
                              Column(t2, "__nonsense_eng")[k].v[1])]),
          {"__nonsense_nep", "__nonsense_eng"})

\* lines 156-158 on a table
AllowedPass(t) ==
    FilterRows(t, [k \in 1..Len(t.rows) |-> FullMatchAllowed(Nep(t.rows[k]))])

\* lines 160-164 on a table
DedupPass(t) ==
    LET keys == DedupKeys(t.rows)
    IN FilterRows(t, [k \in 1..Len(keys) |->
                         ~Duplicated(keys, k, KeepArg(args.keep_order))])

\* df before line 167 when lines 146-148 are left out, for the table read
DfWithoutLatinPass ==
    DedupPass(AllowedPass(NonsensePass(BlankPass(CleanedTable(p_input)))))

\* C11: the pipeline without the Latin-letter pass gives the same result as
\* the pipeline with it: the same df reaches the write step and the same
\* table is written.
C11_LatinPassSubsumed ==
    /\ ppc = "write" => df = DfWithoutLatinPass
    /\ ppc = "done" => p_outfile = ToExcel(SelectColumns(DfWithoutLatinPass, cols))

\* a table was written after the Latin-letter pass dropped a row that is
\* neither blank nor nonsense, while another row survived
C11_Witness ==
    /\ ppc = "done"
    /\ Len(p_outfile.rows) >= 1
    /\ \E k \in 1..Len(p_input.rows) :
          /\ ContainsLatin(CleanNepali(p_input.rows[k]))
          /\ ~IsBlank(CleanEnglish(p_input.rows[k]))
          /\ ~looks_nonsense(CleanNepali(p_input.rows[k]),
                             args.min_alpha_ratio, args.max_symbol_ratio)
          /\ ~looks_nonsense(CleanEnglish(p_input.rows[k]),
                             args.min_alpha_ratio, args.max_symbol_ratio)

====
